---- MODULE Spec2Model ----
(***************************************************************************)
(* Model of scripts/check-db.js, the pre-deployment database readiness     *)
(* check: SKIP_DB_CHECK guard, checkEnv, performChecks (client             *)
(* construction, connect, version gate, v1-migration detection, migrate    *)
(* deploy, disconnect) and the main loop over DATABASE_URLS.               *)
(*                                                                         *)
(* Representation.                                                         *)
(*  - A JS string is a sequence of characters (version strings) or of      *)
(*    tokens (URLs; the token ":" is the only one that holds a colon).     *)
(*  - A possibly-undefined value is <<>> (undefined) or <<s>> (string s).  *)
(*  - A semantic version is <<major, minor, patch>>; null is <<>>.         *)
(*  - A message (Error.message or a console line) is a record              *)
(*    [tags, text, args, ver]: the "[label] " prefixes, outermost first,   *)
(*    the fixed text, interpolated strings, interpolated version.          *)
(*  - The database, the Prisma client and the prisma CLI are the           *)
(*    environment: every call to them nondeterministically succeeds or     *)
(*    throws, and queries return any result from bounded sets.             *)
(***************************************************************************)
EXTENDS Integers, Sequences, FiniteSets, TLC

\* env            process.env after dotenv.config() (line 2)
\* pc             the position of the run in the script
\* idx            the iteration of the for-of loop (line 114), from 1
\* label, dbUrl   the constants of the current iteration (lines 115-116)
\* versionString  line 70, undefined outside performChecks
\* version        line 71, null outside performChecks
\* e              the error in flight, if any
\* out            the lines printed so far
\* exitCode       the argument of process.exit, once called
\* trace          the steps made so far, each with its outcome
\* open           the labels whose connection is open
VARIABLES env, pc, idx, label, dbUrl, versionString, version, e, out,
          exitCode, trace, open

vars == <<env, pc, idx, label, dbUrl, versionString, version, e, out,
          exitCode, trace, open>>

-----------------------------------------------------------------------------
(* Bounds of the model *)

\* longest generated raw version string
MaxVerLen == 2

\* most rows the legacy-migrations query returns
MaxRows == 2

-----------------------------------------------------------------------------
(* JS values *)

Undefined == <<>>

Str(s) == <<s>>

\* a truthiness that reads the strings "false" and "0" as false
Truthy_BooleanLike(v) == v # Undefined /\ v[1] \notin {<<>>, <<"false">>, <<"0">>}

\* JS truthiness of a string-or-undefined value: undefined and "" are falsy
Truthy(v) == v # Undefined /\ v[1] # <<>>

\* the process exit code: <<>> while the process runs, <<n>> after process.exit(n)
Running == <<>>

Exited(n) == <<n>>

-----------------------------------------------------------------------------
(* Inputs *)

VerAlphabet == {"0", "9", ".", "v"}

GeneratedVersions == UNION {[1..k -> VerAlphabet] : k \in 0..MaxVerLen}

ExampleVersions ==
  { <<"8", ".", "0", ".", "0">>,
    <<"9", ".", "4", ".", "0">>,
    <<"9", ".", "3", ".", "9">>,
    <<"5", ".", "6", ".", "9">>,
    <<"5", ".", "7", ".", "0">>,
    <<"1", "0", ".", "2">>,
    <<"P", "G", " ", "9", ".", "4", ".", "1", " ", "o", "n", " ", "x", "6", "4">>,
    <<"8", ".", "0", ".", "3", "0", "-", "l", "o", "g">>,
    <<"0", "9", ".", "4", ".", "0">> }

VersionStrings == GeneratedVersions \cup ExampleVersions

UrlValues ==
  { <<"postgres", ":", "//db">>,
    <<"postgresql", ":", "//db", ":", "5432">>,
    <<"mysql", ":", "//db">> }

\* a variable of process.env is undefined, "" or a string
EnvUrlValues == {Undefined, Str(<<>>)} \cup {Str(u) : u \in UrlValues}

SkipValues == {Undefined, Str(<<>>), Str(<<"1">>), Str(<<"false">>)}

-----------------------------------------------------------------------------
(* Messages *)

Msg(tags, text, args, ver) == [tags |-> tags, text |-> text, args |-> args, ver |-> ver]

Plain(text) == Msg(<<>>, text, <<>>, <<>>)

\* `[${label}] text`
Tagged(l, text) == Msg(<<l>>, text, <<>>, <<>>)

\* success(msg): console.log of a green check-mark line
success(msg) == [kind |-> "success", msg |-> msg]

\* error(msg): console.log of a red cross line
error(msg) == [kind |-> "error", msg |-> msg]

\* a bare console.log
log(msg) == [kind |-> "log", msg |-> msg]

\* the value of e while no error is in flight
NoError == <<>>

Thrown(msg) == <<msg>>

-----------------------------------------------------------------------------
(* const DATABASE_URLS *)

DATABASE_URLS_Reversed == <<"DIRECT_DATABASE_URL", "DATABASE_URL">>

DATABASE_URLS == <<"DATABASE_URL", "DIRECT_DATABASE_URL">>

Labels == {DATABASE_URLS[i] : i \in 1..Len(DATABASE_URLS)}

EnvNames == Labels \cup {"SKIP_DB_CHECK"}

-----------------------------------------------------------------------------
(* getDatabaseType *)

\* url.split(':')[0]: the tokens before the first ":"
RECURSIVE SplitFirst(_)
SplitFirst(s) ==
  IF s = <<>> \/ Head(s) = ":" THEN <<>> ELSE <<Head(s)>> \o SplitFirst(Tail(s))

\* url && url.split(':')[0], with 'postgres' mapped to 'postgresql'
getDatabaseType(url) ==
  LET type == IF ~Truthy(url) THEN url ELSE Str(SplitFirst(url[1]))
  IN  IF type = Str(<<"postgres">>) THEN Str(<<"postgresql">>) ELSE type

\* `${databaseType}` in a template string
TypeText(type) == IF type = Undefined THEN <<"undefined">> ELSE type[1]

-----------------------------------------------------------------------------
(* semver.coerce, semver.valid, semver.lt *)

Null == <<>>

Digits == {"0", "1", "2", "3", "4", "5", "6", "7", "8", "9"}

IsDigit(c) == c \in Digits

DigitVal(c) ==
  CASE c = "0" -> 0 [] c = "1" -> 1 [] c = "2" -> 2 [] c = "3" -> 3 [] c = "4" -> 4
    [] c = "5" -> 5 [] c = "6" -> 6 [] c = "7" -> 7 [] c = "8" -> 8 [] c = "9" -> 9

\* last index of the maximal digit run that starts at i
RECURSIVE RunEnd(_, _)
RunEnd(s, i) == IF i < Len(s) /\ IsDigit(s[i + 1]) THEN RunEnd(s, i + 1) ELSE i

\* the number written by the digits s[i..j]
RECURSIVE Number(_, _, _)
Number(s, i, j) == IF j < i THEN 0 ELSE Number(s, i, j - 1) * 10 + DigitVal(s[j])

\* the strict numeric identifier 0|[1-9]\d* : no leading zero
StrictNumeric(s, i, j) == i = j \/ s[i] # "0"

\* a "." and a digit follow position j: the optional group (?:\.(\d{1,16}))
HasNext(s, j) == j + 2 <= Len(s) /\ s[j + 1] = "." /\ IsDigit(s[j + 2])

\* semver.coerce of a string: the leftmost match of
\*   (^|[^\d])(\d{1,16})(?:\.(\d{1,16}))?(?:\.(\d{1,16}))?(?:$|[^\d])
\* (every digit run of the model is shorter than 16), then a strict parse of
\* `${major}.${minor || '0'}.${patch || '0'}`
CoerceString(s) ==
  IF \A i \in 1..Len(s) : ~IsDigit(s[i]) THEN Null
  ELSE
    LET a1 == CHOOSE i \in 1..Len(s) :
                IsDigit(s[i]) /\ \A k \in 1..(i - 1) : ~IsDigit(s[k])
        b1 == RunEnd(s, a1)
        hasMinor == HasNext(s, b1)
        a2 == b1 + 2
        b2 == IF hasMinor THEN RunEnd(s, a2) ELSE b1
        hasPatch == hasMinor /\ HasNext(s, b2)
        a3 == b2 + 2
        b3 == IF hasPatch THEN RunEnd(s, a3) ELSE b2
    IN  IF /\ StrictNumeric(s, a1, b1)
           /\ hasMinor => StrictNumeric(s, a2, b2)
           /\ hasPatch => StrictNumeric(s, a3, b3)
        THEN << Number(s, a1, b1),
                IF hasMinor THEN Number(s, a2, b2) ELSE 0,
                IF hasPatch THEN Number(s, a3, b3) ELSE 0 >>
        ELSE Null

\* semver.coerce: a value that is no string (undefined) coerces to null
coerce(v) == IF v = Undefined THEN Null ELSE CoerceString(v[1])

\* semver.valid of a parsed version or null: the version itself, or null
valid(v) == v

compareIdentifiers(a, b) == IF a = b THEN 0 ELSE IF a < b THEN -1 ELSE 1

\* SemVer.compareMain: major, then minor, then patch
compareMain(a, b) ==
  IF compareIdentifiers(a[1], b[1]) # 0 THEN compareIdentifiers(a[1], b[1])
  ELSE IF compareIdentifiers(a[2], b[2]) # 0 THEN compareIdentifiers(a[2], b[2])
  ELSE compareIdentifiers(a[3], b[3])

lt_OrEqual(a, b) == compareMain(a, b) <= 0

\* semver.lt
lt(a, b) == compareMain(a, b) < 0

\* databaseType === 'postgresql' ? '9.4.0' : '5.7.0'
minVersion(databaseType) ==
  IF databaseType = Str(<<"postgresql">>) THEN <<9, 4, 0>> ELSE <<5, 7, 0>>

-----------------------------------------------------------------------------
(* checkEnv *)

\* the line the forEach callback prints for one variable
EnvLine(envVar) ==
  IF ~Truthy(env[envVar])
  THEN error(Msg(<<>>, "is not defined.", <<envVar>>, <<>>))
  ELSE success(Msg(<<>>, "is defined.", <<envVar>>, <<>>))

\* a loop that stops at the first variable that is not defined
RECURSIVE EnvLines_StopAtFirst(_)
EnvLines_StopAtFirst(names) ==
  IF names = <<>> THEN <<>>
  ELSE IF ~Truthy(env[Head(names)]) THEN <<EnvLine(Head(names))>>
  ELSE <<EnvLine(Head(names))>> \o EnvLines_StopAtFirst(Tail(names))

\* DATABASE_URLS.forEach(...): one line for every variable, in order
RECURSIVE EnvLines(_)
EnvLines(names) ==
  IF names = <<>> THEN <<>>
  ELSE <<EnvLine(Head(names))>> \o EnvLines(Tail(names))

allDefined_Any(names) == \E i \in 1..Len(names) : Truthy(env[names[i]])

\* allDefined after the forEach
allDefined(names) == \A i \in 1..Len(names) : Truthy(env[names[i]])

-----------------------------------------------------------------------------
(* Steps of the run, recorded in trace as they happen *)

Step(op, l, ok, rows) == [op |-> op, label |-> l, ok |-> ok, rows |-> rows]

NoLabel == ""

-----------------------------------------------------------------------------
(* State *)

Init ==
  /\ env \in [EnvNames -> EnvUrlValues \cup SkipValues]
  /\ env["SKIP_DB_CHECK"] \in SkipValues
  /\ \A l \in Labels : env[l] \in EnvUrlValues
  /\ pc = "skipGuard"
  /\ idx = 0
  /\ label = NoLabel
  /\ dbUrl = Undefined
  /\ versionString = Undefined
  /\ version = Null
  /\ e = NoError
  /\ out = <<>>
  /\ exitCode = Running
  /\ trace = <<>>
  /\ open = {}

\* lines 11-14: if (process.env.SKIP_DB_CHECK) { log; process.exit(0) }
SkipGuard ==
  /\ pc = "skipGuard"
  /\ IF Truthy(env["SKIP_DB_CHECK"])
     THEN /\ out' = Append(out, log(Plain("Skipping database check.")))
          /\ exitCode' = Exited(0)
          /\ pc' = "done"
     ELSE /\ pc' = "checkEnv"
          /\ UNCHANGED <<out, exitCode>>
  /\ UNCHANGED <<env, idx, label, dbUrl, versionString, version, e, trace, open>>

\* lines 37-51, called at line 111
CheckEnv ==
  /\ pc = "checkEnv"
  /\ out' = out \o EnvLines(DATABASE_URLS)
  /\ trace' = Append(trace, Step("checkEnv", NoLabel, allDefined(DATABASE_URLS), 0))
  /\ IF ~allDefined(DATABASE_URLS)
     THEN /\ e' = Thrown(Plain("One or more required database environment variables are missing."))
          /\ pc' = "outerCatch"
          /\ idx' = idx
     ELSE /\ e' = e
          /\ pc' = "loop"
          /\ idx' = 1
  /\ UNCHANGED <<env, label, dbUrl, versionString, version, exitCode, open>>

\* lines 114-118: the for-of header and the call of performChecks
Loop ==
  /\ pc = "loop"
  /\ IF idx <= Len(DATABASE_URLS)
     THEN /\ dbUrl' = env[DATABASE_URLS[idx]]
          /\ label' = DATABASE_URLS[idx]
          /\ pc' = "construct"
     ELSE /\ pc' = "allPassed"
          /\ UNCHANGED <<dbUrl, label>>
  /\ UNCHANGED <<env, idx, versionString, version, e, out, exitCode, trace, open>>

-----------------------------------------------------------------------------
(* performChecks *)

\* where a throw inside the try block of performChecks lands: its catch clause
OnThrow == "catch"

\* the catch clause rethrows inside try/catch/finally: the finally block runs next
AfterCatch_NoFinally == "outerCatch"

AfterCatch == "finally"

\* lines 55-61: new PrismaClient(...), before the try block
Construct ==
  /\ pc = "construct"
  /\ \E ok \in BOOLEAN :
       /\ trace' = Append(trace, Step("new", label, ok, 0))
       /\ IF ok
          THEN /\ pc' = "connect"
               /\ e' = e
          ELSE /\ pc' = "outerCatch"
               /\ e' = Thrown(Plain("PrismaClient constructor error"))
  /\ UNCHANGED <<env, idx, label, dbUrl, versionString, version, out, exitCode, open>>

\* lines 65-66: await prisma.$connect(); success(...)
Connect ==
  /\ pc = "connect"
  /\ \E ok \in BOOLEAN :
       /\ trace' = Append(trace, Step("connect", label, ok, 0))
       /\ IF ok
          THEN /\ open' = open \cup {label}
               /\ out' = Append(out, success(Tagged(label, "Database connection successful.")))
               /\ pc' = "queryVersion"
               /\ e' = e
          ELSE /\ pc' = OnThrow
               /\ e' = Thrown(Plain("connect error"))
               /\ UNCHANGED <<open, out>>
  /\ UNCHANGED <<env, idx, label, dbUrl, versionString, version, exitCode>>

\* line 69 throws: the query is rejected
QueryVersionThrows ==
  /\ pc = "queryVersion"
  /\ trace' = Append(trace, Step("queryVersion", label, FALSE, 0))
  /\ pc' = OnThrow
  /\ e' = Thrown(Plain("query error"))
  /\ UNCHANGED <<env, idx, label, dbUrl, versionString, version, out, exitCode, open>>

\* line 70 throws: the result has no row, queryResult[0] is undefined
QueryVersionNoRow ==
  /\ pc = "queryVersion"
  /\ trace' = Append(trace, Step("queryVersion", label, FALSE, 0))
  /\ pc' = OnThrow
  /\ e' = Thrown(Plain("Cannot read properties of undefined"))
  /\ UNCHANGED <<env, idx, label, dbUrl, versionString, version, out, exitCode, open>>

\* lines 69-71: the first row's version column (undefined when the row has no
\* such column), then version = semver.valid(semver.coerce(versionString))
QueryVersion ==
  /\ pc = "queryVersion"
  /\ \E raw \in {Undefined} \cup {Str(v) : v \in VersionStrings} :
       /\ versionString' = raw
       /\ version' = valid(coerce(raw))
  /\ trace' = Append(trace, Step("queryVersion", label, TRUE, 1))
  /\ pc' = "gate"
  /\ UNCHANGED <<env, idx, label, dbUrl, e, out, exitCode, open>>

\* lines 73-86: the version gate
VersionGate ==
  /\ pc = "gate"
  /\ LET databaseType == getDatabaseType(dbUrl)
         min == minVersion(databaseType)
     IN  IF version = Null
         THEN /\ e' = Thrown(Tagged(label, "Unable to parse database version."))
              /\ trace' = Append(trace, Step("gate", label, FALSE, 0))
              /\ pc' = OnThrow
              /\ out' = out
         ELSE IF lt(version, min)
         THEN /\ e' = Thrown(Msg(<<label>>, "Database version is not compatible.",
                                 TypeText(databaseType), min))
              /\ trace' = Append(trace, Step("gate", label, FALSE, 0))
              /\ pc' = OnThrow
              /\ out' = out
         ELSE /\ e' = e
              /\ trace' = Append(trace, Step("gate", label, TRUE, 0))
              /\ pc' = "queryMigrations"
              /\ out' = Append(out, success(Msg(<<label>>, "Database version is compatible.",
                                                <<>>, version)))
  /\ UNCHANGED <<env, idx, label, dbUrl, versionString, version, exitCode, open>>

\* line 89 throws: the query on _prisma_migrations is rejected
QueryMigrationsThrows ==
  /\ pc = "queryMigrations"
  /\ trace' = Append(trace, Step("queryMigrations", label, FALSE, 0))
  /\ pc' = OnThrow
  /\ e' = Thrown(Plain("query error"))
  /\ UNCHANGED <<env, idx, label, dbUrl, versionString, version, out, exitCode, open>>

v1Detected_MoreThanOne(rows) == rows > 1

\* migrations.length > 0
v1Detected(rows) == rows > 0

\* lines 89-97: the rows started before 2023-04-17
QueryMigrations ==
  /\ pc = "queryMigrations"
  /\ \E rows \in 0..MaxRows :
       /\ trace' = Append(trace, Step("queryMigrations", label, TRUE, rows))
       /\ IF v1Detected(rows)
          THEN /\ out' = Append(out, error(Tagged(label, "Umami v1 tables detected. To upgrade")))
               /\ e' = Thrown(Tagged(label, "Umami v1 tables detected."))
               /\ pc' = OnThrow
          ELSE /\ out' = Append(out, success(Tagged(label, "No Umami v1 tables detected.")))
               /\ e' = e
               /\ pc' = "migrate"
  /\ UNCHANGED <<env, idx, label, dbUrl, versionString, version, exitCode, open>>

\* lines 100-101: execSync('npx prisma migrate deploy'), its output, success(...)
Migrate ==
  /\ pc = "migrate"
  /\ \E ok \in BOOLEAN :
       /\ trace' = Append(trace, Step("migrate", label, ok, 0))
       /\ IF ok
          THEN /\ out' = out \o << log(Plain("prisma migrate deploy output")),
                                   success(Tagged(label, "Database is up to date.")) >>
               /\ e' = e
               /\ pc' = "finally"
          ELSE /\ out' = out
               /\ e' = Thrown(Plain("Command failed: npx prisma migrate deploy"))
               /\ pc' = OnThrow
  /\ UNCHANGED <<env, idx, label, dbUrl, versionString, version, exitCode, open>>

\* lines 102-103: throw new Error(`[${label}] ${e.message}`)
Catch ==
  /\ pc = "catch"
  /\ e' = Thrown([e[1] EXCEPT !.tags = <<label>> \o @])
  /\ pc' = AfterCatch
  /\ UNCHANGED <<env, idx, label, dbUrl, versionString, version, out, exitCode, trace, open>>

\* lines 104-106: await prisma.$disconnect(), then the pending throw or the return;
\* an error thrown by the finally block replaces the pending one
Finally ==
  /\ pc = "finally"
  /\ \E ok \in BOOLEAN :
       /\ trace' = Append(trace, Step("disconnect", label, ok, 0))
       /\ IF ok
          THEN /\ open' = open \ {label}
               /\ e' = e
               /\ IF e = NoError
                  THEN pc' = "loop" /\ idx' = idx + 1
                  ELSE pc' = "outerCatch" /\ idx' = idx
          ELSE /\ open' \in {open, open \ {label}}
               /\ e' = Thrown(Plain("disconnect error"))
               /\ pc' = "outerCatch"
               /\ idx' = idx
  /\ versionString' = Undefined
  /\ version' = Null
  /\ UNCHANGED <<env, label, dbUrl, out, exitCode>>

-----------------------------------------------------------------------------
(* main *)

\* lines 121-122
AllPassed ==
  /\ pc = "allPassed"
  /\ out' = Append(out, log(Plain("All database checks passed successfully.")))
  /\ exitCode' = Exited(0)
  /\ pc' = "done"
  /\ UNCHANGED <<env, idx, label, dbUrl, versionString, version, e, trace, open>>

ExitCodeOnError_Zero == Exited(0)

\* line 125: process.exit(1)
ExitCodeOnError == Exited(1)

\* lines 123-126: catch (e) { error(e.message); process.exit(1) }
OuterCatch ==
  /\ pc = "outerCatch"
  /\ out' = Append(out, error(e[1]))
  /\ exitCode' = ExitCodeOnError
  /\ pc' = "done"
  /\ UNCHANGED <<env, idx, label, dbUrl, versionString, version, e, trace, open>>

Next ==
  \/ SkipGuard
  \/ CheckEnv
  \/ Loop
  \/ Construct
  \/ Connect
  \/ QueryVersionThrows
  \/ QueryVersionNoRow
  \/ QueryVersion
  \/ VersionGate
  \/ QueryMigrationsThrows
  \/ QueryMigrations
  \/ Migrate
  \/ Catch
  \/ Finally
  \/ AllPassed
  \/ OuterCatch

Spec == Init /\ [][Next]_vars

-----------------------------------------------------------------------------
(* Vocabulary of the properties *)

Primary == "DATABASE_URL"

Direct == "DIRECT_DATABASE_URL"

\* the variable is missing or empty
Missing(name) == env[name] \in {Undefined, Str(<<>>)}

SkipSet == ~Missing("SKIP_DB_CHECK")

Steps == 1..Len(trace)

\* step op of data source l has run and succeeded
Passed(op, l) ==
  \E i \in Steps : trace[i].op = op /\ trace[i].label = l /\ trace[i].ok /\
                    (op = "queryMigrations" => trace[i].rows = 0)

\* step i is one of the four check steps and has failed
CheckFailed(i) ==
  \/ trace[i].op \in {"connect", "queryVersion", "gate", "queryMigrations", "migrate"} /\ ~trace[i].ok
  \/ trace[i].op = "queryMigrations" /\ trace[i].rows > 0

\* the run's outcome is decided: main is past the loop or in its catch clause
OutcomeDecided == ~SkipSet /\ pc \in {"allPassed", "outerCatch", "done"}

Printed(kind, l, text) ==
  \E k \in 1..Len(out) : out[k].kind = kind /\ out[k].msg.tags = <<l>> /\ out[k].msg.text = text

FullyPassedLines(l) ==
  /\ Printed("success", l, "Database connection successful.")
  /\ Printed("success", l, "Database version is compatible.")
  /\ Printed("success", l, "No Umami v1 tables detected.")
  /\ Printed("success", l, "Database is up to date.")

-----------------------------------------------------------------------------
(* C1 *)

\* C1: when SKIP_DB_CHECK is truthy (set and non-empty), whatever the two URL
\* variables hold, the run does nothing but print the skip line and exit with
\* code 0: no checkEnv, no client construction, connect, query, migrate or
\* disconnect step ever happens and no connection is ever open.
C1_SkipExitsZero ==
  SkipSet =>
    /\ trace = <<>>
    /\ open = {}
    /\ pc \in {"skipGuard", "done"}
    /\ pc = "skipGuard" => exitCode = Running /\ out = <<>>
    /\ pc = "done" => exitCode = Exited(0) /\ out = <<log(Plain("Skipping database check."))>>

C1_Witness ==
  /\ env["SKIP_DB_CHECK"] = Str(<<"false">>)
  /\ Missing(Primary) /\ ~Missing(Direct)
  /\ pc = "done" /\ exitCode = Exited(0)

-----------------------------------------------------------------------------
(* C2 *)

\* C2: when the check is not skipped and DATABASE_URL or DIRECT_DATABASE_URL is
\* missing or empty, checkEnv fails, the run ends with exit code 1, and no
\* client step (construction, connect, query, migrate, disconnect) happens for
\* any data source, the one whose variable is defined included.
C2_MissingEnvAbortsBeforeConnect ==
  (~SkipSet /\ (Missing(Primary) \/ Missing(Direct))) =>
    /\ \A i \in Steps : trace[i].op = "checkEnv" /\ ~trace[i].ok
    /\ open = {}
    /\ pc \in {"skipGuard", "checkEnv", "outerCatch", "done"}
    /\ pc = "done" => exitCode = Exited(1)
    /\ pc # "done" => exitCode = Running

C2_Witness ==
  /\ ~SkipSet /\ ~Missing(Primary) /\ Missing(Direct)
  /\ pc = "done" /\ exitCode = Exited(1)
  /\ Len(trace) = 1

-----------------------------------------------------------------------------
(* C3 *)

\* C3: once the legacy-migrations query has returned a non-empty result for a
\* data source, performChecks fails for it (an error is in flight until the run
\* exits with code 1, never 0) and no migrate step of that data source follows.
C3_LegacyRowsBlockMigrate ==
  \A i \in Steps :
    (trace[i].op = "queryMigrations" /\ trace[i].ok /\ trace[i].rows > 0) =>
      /\ \A j \in Steps : j > i => ~(trace[j].op = "migrate" /\ trace[j].label = trace[i].label)
      /\ Printed("error", trace[i].label, "Umami v1 tables detected. To upgrade")
      /\ pc # "done" => e # NoError /\ exitCode = Running
      /\ pc = "done" => exitCode = Exited(1)
      /\ pc \in {"catch", "finally", "outerCatch", "done"}

C3_Witness ==
  /\ pc = "done"
  /\ \E i \in Steps : trace[i].op = "queryMigrations" /\ trace[i].rows = 1 /\ trace[i].label = Direct
  /\ Passed("migrate", Primary)

-----------------------------------------------------------------------------
(* C4 *)

\* the last line printed is a failure line that carries the label l
FailureReportedFor(l) ==
  /\ out # <<>>
  /\ out[Len(out)].kind = "error"
  /\ out[Len(out)].msg.tags # <<>>
  /\ out[Len(out)].msg.tags[1] = l

\* C4: a failed check step (connect, version gate, legacy detection, migrate) of
\* one data source aborts the run: no step of another data source follows it.
\* And when the run has ended with every check of DATABASE_URL passed and the
\* version gate of DIRECT_DATABASE_URL failed, the exit code is 1, the four
\* success lines of DATABASE_URL are printed, the failure line carries the label
\* DIRECT_DATABASE_URL, and no migrate step of DIRECT_DATABASE_URL has run.
C4_FailureAbortsRun ==
  /\ \A i \in Steps : CheckFailed(i) =>
        \A j \in Steps : j > i => trace[j].label = trace[i].label
  /\ ( /\ pc = "done"
       /\ \A op \in {"connect", "gate", "queryMigrations", "migrate"} : Passed(op, Primary)
       /\ \E i \in Steps : trace[i].op = "gate" /\ trace[i].label = Direct /\ ~trace[i].ok )
     => /\ exitCode = Exited(1)
        /\ FullyPassedLines(Primary)
        /\ FailureReportedFor(Direct)
        /\ \A j \in Steps : ~(trace[j].op = "migrate" /\ trace[j].label = Direct)

-----------------------------------------------------------------------------
(* C5 *)

EnvOk == ~Missing(Primary) /\ ~Missing(Direct)

ChecksPassed(l) ==
  \A op \in {"connect", "gate", "queryMigrations", "migrate"} : Passed(op, l)

\* C5 as stated: at the end of the run the exit code is 0 or 1, and it is 0
\* exactly when the check was skipped or checkEnv passed and connect, version
\* gate, legacy detection and migrate succeeded for both data sources.
C5_ExitCodeAsStated ==
  pc = "done" =>
    /\ exitCode \in {Exited(0), Exited(1)}
    /\ exitCode = Exited(0) <=>
         (SkipSet \/ (EnvOk /\ \A l \in {Primary, Direct} : ChecksPassed(l)))

\* C5 amended: at the end of the run the exit code is 0 or 1, and it is 0 exactly
\* when the check was skipped or checkEnv passed and connect, version gate,
\* legacy detection, migrate and the closing $disconnect succeeded for both
\* data sources.
C5_ExitCodeWithDisconnect ==
  pc = "done" =>
    /\ exitCode \in {Exited(0), Exited(1)}
    /\ exitCode = Exited(0) <=>
         (SkipSet \/ (EnvOk /\ \A l \in {Primary, Direct} :
                                 ChecksPassed(l) /\ Passed("disconnect", l)))

C5_Witness ==
  /\ pc = "done" /\ exitCode = Exited(1)
  /\ ChecksPassed(Primary) /\ ChecksPassed(Direct)
  /\ Passed("disconnect", Primary) /\ ~Passed("disconnect", Direct)

-----------------------------------------------------------------------------
(* C6 *)

\* the family of a URL: its scheme, with postgres read as postgresql
Family(url) ==
  IF Head(url[1]) \in {"postgres", "postgresql"} THEN "postgresql" ELSE Head(url[1])

Minimum(family) == IF family = "postgresql" THEN <<9, 4, 0>> ELSE <<5, 7, 0>>

\* V >= M by major, then minor, then patch
AtLeast(V, M) ==
  \/ V[1] > M[1]
  \/ V[1] = M[1] /\ V[2] > M[2]
  \/ V[1] = M[1] /\ V[2] = M[2] /\ V[3] >= M[3]

Chars(a, b, c) == Str(<<a, ".", b, ".", c>>)

\* C6: right after the version gate has been evaluated for a data source, it has
\* passed if and only if the raw version string coerces to a version V with
\* V >= the minimum of the URL's family (9.4.0 for postgres/postgresql, 5.7.0 for
\* any other scheme). A missing or empty version string fails; 8.0.0 fails and
\* 9.4.0 passes for postgresql; 5.6.9 fails for another family. A pass goes on
\* to legacy detection, a failure throws.
C6_VersionGate ==
  (trace # <<>> /\ trace[Len(trace)].op = "gate" /\ pc \in {"queryMigrations", "catch"}) =>
    LET ok == trace[Len(trace)].ok
        V == coerce(versionString)
        family == Family(dbUrl)
    IN  /\ ok <=> (V # Null /\ AtLeast(V, Minimum(family)))
        /\ versionString \in {Undefined, Str(<<>>)} => ~ok
        /\ (versionString = Chars("8", "0", "0") /\ family = "postgresql") => ~ok
        /\ (versionString = Chars("9", "4", "0") /\ family = "postgresql") => ok
        /\ (versionString = Chars("5", "6", "9") /\ family # "postgresql") => ~ok
        /\ ok => pc = "queryMigrations" /\ e = NoError
        /\ ~ok => pc = "catch" /\ e # NoError

C6_Witness ==
  /\ trace # <<>> /\ trace[Len(trace)].op = "gate" /\ trace[Len(trace)].ok
  /\ pc = "queryMigrations"
  /\ versionString = Chars("9", "4", "0")
  /\ dbUrl = Str(<<"postgres", ":", "//db">>)

-----------------------------------------------------------------------------
(* C7 *)

\* $disconnect of data source l has been called between steps i and j
DisconnectedBetween(l, i, j) ==
  \E k \in Steps : i < k /\ k < j /\ trace[k].op = "disconnect" /\ trace[k].label = l

\* C7: at most one connection is open at any time. Every connection acquired by
\* a successful connect is released by a call of $disconnect on it, whatever
\* the outcome of its checks, before any step of another data source and before
\* the outcome of the run is decided; a connection still open then is one whose
\* $disconnect itself threw.
C7_ConnectionReleased ==
  /\ Cardinality(open) <= 1
  /\ \A i \in Steps : (trace[i].op = "connect" /\ trace[i].ok) =>
        /\ \A j \in Steps : (j > i /\ trace[j].label # trace[i].label) =>
              DisconnectedBetween(trace[i].label, i, j)
        /\ OutcomeDecided => DisconnectedBetween(trace[i].label, i, Len(trace) + 1)
  /\ \A l \in open :
        /\ Passed("connect", l)
        /\ OutcomeDecided =>
              \E k \in Steps : trace[k].op = "disconnect" /\ trace[k].label = l /\ ~trace[k].ok
  /\ pc \in {"loop", "construct", "connect"} => open = {}

C7_Witness ==
  /\ pc = "done" /\ open = {}
  /\ Passed("connect", Primary) /\ Passed("disconnect", Primary)
  /\ Passed("connect", Direct) /\ Passed("disconnect", Direct)
  /\ \E i \in Steps : trace[i].op = "gate" /\ trace[i].label = Direct /\ ~trace[i].ok

-----------------------------------------------------------------------------
(* C8 *)

\* the messages of the errors a step can raise
ErrorTexts(op) ==
  CASE op = "new" -> {"PrismaClient constructor error"}
    [] op = "connect" -> {"connect error"}
    [] op = "queryVersion" -> {"query error", "Cannot read properties of undefined"}
    [] op = "gate" -> {"Unable to parse database version.", "Database version is not compatible."}
    [] op = "queryMigrations" -> {"query error", "Umami v1 tables detected."}
    [] op = "migrate" -> {"Command failed: npx prisma migrate deploy"}
    [] op = "disconnect" -> {"disconnect error"}
    [] OTHER -> {}

\* step i of a data source raised an error
Raised(i) ==
  /\ trace[i].label # NoLabel
  /\ ~trace[i].ok \/ (trace[i].op = "queryMigrations" /\ trace[i].rows > 0)

\* C8: no step of a data source is attempted twice, and when the run has ended,
\* every error a step of a data source raised (client construction, connect,
\* version query, version gate, legacy detection, migrate, disconnect) has
\* turned into exit code 1 and is printed as a failure line that carries that
\* data source's label.
C8_ErrorsLabelledAndPrinted ==
  /\ \A i, j \in Steps :
        (i < j /\ trace[i].label # NoLabel) =>
          ~(trace[i].op = trace[j].op /\ trace[i].label = trace[j].label)
  /\ pc = "done" =>
        \A i \in Steps : Raised(i) =>
          /\ exitCode = Exited(1)
          /\ \E k \in 1..Len(out) :
                /\ out[k].kind = "error"
                /\ out[k].msg.text \in ErrorTexts(trace[i].op)
                /\ out[k].msg.tags # <<>>
                /\ out[k].msg.tags[1] = trace[i].label

-----------------------------------------------------------------------------
(* C9 *)

\* the place of a step in the sequence of performChecks
Rank(op) ==
  CASE op = "new" -> 0
    [] op = "connect" -> 1
    [] op = "queryVersion" -> 2
    [] op = "gate" -> 3
    [] op = "queryMigrations" -> 4
    [] op = "migrate" -> 5
    [] op = "disconnect" -> 6
    [] OTHER -> 0 - 1

\* step op of data source l has passed before step j
PassedBefore(op, l, j) ==
  \E i \in Steps : i < j /\ trace[i].op = op /\ trace[i].label = l /\ trace[i].ok /\
                    (op = "queryMigrations" => trace[i].rows = 0)

\* C9: the steps of DATABASE_URL all come before the steps of
\* DIRECT_DATABASE_URL; within a data source the steps come in the order
\* connect, version gate, legacy detection, migrate, each at most once; migrate
\* of a data source comes only after its own connect, version gate and legacy
\* detection have passed; and a step of DIRECT_DATABASE_URL comes only after
\* all four checks of DATABASE_URL, migrate included, have passed.
C9_FixedOrderNoInterleaving ==
  /\ \A i, j \in Steps :
        (i < j /\ trace[i].label # NoLabel) =>
          /\ trace[j].label \in {Primary, Direct}
          /\ trace[i].label = Direct => trace[j].label = Direct
          /\ trace[i].label = trace[j].label => Rank(trace[i].op) < Rank(trace[j].op)
  /\ \A j \in Steps :
        /\ trace[j].op = "migrate" =>
              \A op \in {"connect", "gate", "queryMigrations"} : PassedBefore(op, trace[j].label, j)
        /\ trace[j].label = Direct =>
              \A op \in {"connect", "gate", "queryMigrations", "migrate"} : PassedBefore(op, Primary, j)

C9_Witness ==
  /\ pc = "done" /\ exitCode = Exited(0)
  /\ Passed("migrate", Primary) /\ Passed("migrate", Direct)
  /\ Len(trace) = 15

-----------------------------------------------------------------------------
(* C10 *)

ReportedMissing(name) ==
  \E k \in 1..Len(out) : out[k] = error(Msg(<<>>, "is not defined.", <<name>>, <<>>))

ReportedDefined(name) ==
  \E k \in 1..Len(out) : out[k] = success(Msg(<<>>, "is defined.", <<name>>, <<>>))

\* C10: once checkEnv has run, a variable of {DATABASE_URL, DIRECT_DATABASE_URL}
\* has a "not defined" failure line exactly when it is missing or empty and a
\* "defined" success line exactly when it is not, both variables being reported
\* whichever is missing; and checkEnv has failed exactly when one is missing.
C10_ReportsExactlyMissing ==
  (trace # <<>> /\ trace[1].op = "checkEnv") =>
    /\ \A name \in {Primary, Direct} :
          /\ ReportedMissing(name) <=> Missing(name)
          /\ ReportedDefined(name) <=> ~Missing(name)
    /\ ~trace[1].ok <=> (Missing(Primary) \/ Missing(Direct))
    /\ ~trace[1].ok => pc \in {"outerCatch", "done"} /\ e # NoError
    /\ trace[1].ok => pc \notin {"outerCatch", "done"} \/ Len(trace) > 1

C10_Witness ==
  /\ trace # <<>> /\ trace[1].op = "checkEnv" /\ ~trace[1].ok
  /\ Missing(Primary) /\ Missing(Direct)
  /\ ReportedMissing(Primary) /\ ReportedMissing(Direct)
  /\ pc = "done"

====
